---- MODULE Spec2Model ----
(***************************************************************************)
(* Control4 climate and fan entities (custom_components/control4).         *)
(*                                                                         *)
(* A behaviour follows ONE entity object.  Each entity owns its attribute  *)
(* store exclusively (nothing is shared between entities), so Init picks   *)
(* the class of the entity (cls) and the actions of the other class are    *)
(* disabled.  The entity receives websocket push messages through          *)
(* _update_callback and service calls through its async_* coroutines; a    *)
(* coroutine runs atomically up to each await of a hub command, where it   *)
(* is suspended until the hub returns, raises, or the task is cancelled.   *)
(*                                                                         *)
(* Temperatures are fixed-point numbers in 1/1000 degree (TempScale), so   *)
(* the 0.01 tolerance of async_set_temperature is a real comparison.       *)
(* Python None is the integer None (-1); dict entries that are absent are  *)
(* absent from the function's DOMAIN.                                      *)
(***************************************************************************)
EXTENDS Integers, Sequences, FiniteSets, TLC

VARIABLES
    cls,                     \* "climate" | "fan": class of the entity object
    extra_state_attributes,  \* self._extra_state_attributes (the attribute store)
    attr_available,          \* self._attr_available
    push,                    \* last _update_callback invocation
    call,                    \* current / last async_* command coroutine
    dispatched               \* hub commands sent by that coroutine, in order

vars == <<cls, extra_state_attributes, attr_available, push, call, dispatched>>

\* ------------------------------------------------------------------ values

None == -1
TempScale == 1000
TOLERANCE == 10             \* 0.01 degree, climate.py:413
MIN_TEMP_RANGE == 2

CONTROL4_HVAC_MODE_OFF == "Off"
CONTROL4_HVAC_MODE_HEAT == "Heat"
CONTROL4_HVAC_MODE_COOL == "Cool"
CONTROL4_HVAC_MODE_HEAT_COOL == "Auto"
CONTROL4_HVAC_MODE_AUX_HEAT == "Emergency Heat"

CONTROL4_FAN_MODE_ON == "On"
CONTROL4_FAN_MODE_AUTO == "Auto"
CONTROL4_FAN_MODE_DIFFUSE == "Circulate"

\* homeassistant HVACMode / FAN_* values used as dict keys
HVACMode_OFF == "off"
HVACMode_HEAT == "heat"
HVACMode_COOL == "cool"
HVACMode_HEAT_COOL == "heat_cool"
FAN_ON == "on"
FAN_AUTO == "auto"
FAN_DIFFUSE == "diffuse"

CONTROL4_HVAC_MODES ==
    [m \in {HVACMode_OFF, HVACMode_HEAT, HVACMode_COOL, HVACMode_HEAT_COOL} |->
        CASE m = HVACMode_OFF -> CONTROL4_HVAC_MODE_OFF
          [] m = HVACMode_HEAT -> CONTROL4_HVAC_MODE_HEAT
          [] m = HVACMode_COOL -> CONTROL4_HVAC_MODE_COOL
          [] m = HVACMode_HEAT_COOL -> CONTROL4_HVAC_MODE_HEAT_COOL]

HVAC_MODES ==
    [s \in {CONTROL4_HVAC_MODE_OFF, CONTROL4_HVAC_MODE_HEAT, CONTROL4_HVAC_MODE_AUX_HEAT,
            CONTROL4_HVAC_MODE_COOL, CONTROL4_HVAC_MODE_HEAT_COOL} |->
        CASE s = CONTROL4_HVAC_MODE_OFF -> HVACMode_OFF
          [] s = CONTROL4_HVAC_MODE_HEAT -> HVACMode_HEAT
          [] s = CONTROL4_HVAC_MODE_AUX_HEAT -> HVACMode_HEAT
          [] s = CONTROL4_HVAC_MODE_COOL -> HVACMode_COOL
          [] s = CONTROL4_HVAC_MODE_HEAT_COOL -> HVACMode_HEAT_COOL]

CONTROL4_FAN_MODES ==
    [m \in {FAN_ON, FAN_AUTO, FAN_DIFFUSE} |->
        CASE m = FAN_ON -> CONTROL4_FAN_MODE_ON
          [] m = FAN_AUTO -> CONTROL4_FAN_MODE_AUTO
          [] m = FAN_DIFFUSE -> CONTROL4_FAN_MODE_DIFFUSE]

\* dict helpers
SetItem(d, k, v) == [x \in (DOMAIN d) \cup {k} |-> IF x = k THEN v ELSE d[x]]
Pop(d, k) == [x \in (DOMAIN d) \ {k} |-> d[x]]
Get(d, k) == IF k \in DOMAIN d THEN d[k] ELSE None

\* ------------------------------------------------------------ push messages

\* "Message will be False when a Websocket disconnect is detected"
False == [disconnect |-> TRUE]

\* which branch of _update_callback a message takes
MessageKind(m) ==
    IF m = False THEN "disconnect"
    ELSE IF "evtName" \notin DOMAIN m THEN "no_evtName"
    ELSE IF m["evtName"] = "OnDataToUI" THEN "data"
    ELSE "other"

\* climate _update_callback: payload field -> store key, in the order of the ifs
CLIMATE_FIELDS ==
    << <<"hvac_state", "HVAC_STATE">>,
       <<"humidity", "HUMIDITY">>,
       <<"setpoint_heat", "HEAT_SETPOINT">>,
       <<"setpoint_heat_f", "HEAT_SETPOINT_F">>,
       <<"setpoint_heat_c", "HEAT_SETPOINT_C">>,
       <<"setpoint_cool", "COOL_SETPOINT">>,
       <<"setpoint_cool_f", "COOL_SETPOINT_F">>,
       <<"setpoint_cool_c", "COOL_SETPOINT_C">>,
       <<"current_temperature", "CURRENT_TEMPERATURE">>,
       <<"temperature", "TEMPERATURE">>,
       <<"current_temperature_f", "CURRENT_TEMPERATURE_F">>,
       <<"current_temperature_c", "CURRENT_TEMPERATURE_C">>,
       <<"hvac_mode", "HVAC_MODE">>,
       <<"fan_mode", "FAN_MODE">>,
       <<"fan_state", "FAN_STATE">> >>

\* Control4Entity._data_to_extra_state_attributes is defined in the package's
\* __init__.py; per the specification the reducer's effect on the tracked keys is
\* exactly the verbatim copy done by the ifs, so it leaves them as they are.
data_to_extra_state_attributes(attrs, data) == attrs

\* the chain of `if "<field>" in data: attrs["<KEY>"] = data["<field>"]`
RECURSIVE CopyFields(_, _, _)
CopyFields(attrs, data, i) ==
    IF i > Len(CLIMATE_FIELDS) THEN attrs
    ELSE LET f == CLIMATE_FIELDS[i][1]
             k == CLIMATE_FIELDS[i][2]
         IN  CopyFields(IF f \in DOMAIN data THEN SetItem(attrs, k, data[f]) ELSE attrs,
                        data, i + 1)

\* mutant: the store is rebuilt from the payload instead of merged into
ClimateMerge_rebuild(attrs, data) ==
    CopyFields([k \in {"aux_mode_active"} |-> attrs[k]], data, 1)

\* Control4Climate._update_callback, lines 190-239: the store after an
\* "OnDataToUI" payload
ClimateMerge(attrs, data) == data_to_extra_state_attributes(CopyFields(attrs, data, 1), data)

\* Payloads the hub pushes to a thermostat (a representative finite set: every
\* recognized field occurs; some payloads carry one field, some a few, one all).
ClimateData ==
    { [unknown_field |-> 1],
      [hvac_mode |-> "Heat"], [hvac_mode |-> "Cool"], [hvac_mode |-> "Auto"],
      [hvac_mode |-> "Emergency Heat"], [hvac_mode |-> ""],
      [hvac_state |-> "Cool Stage 1", humidity |-> 45, temperature |-> 71 * TempScale,
       setpoint_heat_f |-> 66 * TempScale, fan_mode |-> "On", fan_state |-> "On"],
      [hvac_state |-> "Heat", humidity |-> 40, setpoint_heat |-> 68 * TempScale,
       setpoint_heat_f |-> 68 * TempScale, setpoint_heat_c |-> 20 * TempScale,
       setpoint_cool |-> 72 * TempScale, setpoint_cool_f |-> 72 * TempScale,
       setpoint_cool_c |-> 22 * TempScale, current_temperature |-> 70 * TempScale,
       temperature |-> 70 * TempScale, current_temperature_f |-> 70 * TempScale,
       current_temperature_c |-> 21 * TempScale, hvac_mode |-> "Auto",
       fan_mode |-> "Auto", fan_state |-> "Off"] }

\* Payloads carried by messages that are not "OnDataToUI"
OtherData == { [hvac_mode |-> "Cool"], [setpoint_cool_f |-> 75 * TempScale, humidity |-> 30] }

ClimateMessages ==
    {False}
    \cup {[evtName |-> "OnDataToUI", data |-> d] : d \in ClimateData}
    \cup {[evtName |-> "OnPropertyChanged", data |-> d] : d \in OtherData}
    \cup {[data |-> d] : d \in OtherData}

\* Snapshots fetched at construction (director_get_entry_variables)
ClimateSnapshots ==
    { [HVAC_MODE |-> "Off", HVAC_STATE |-> "Off", HUMIDITY |-> 50,
       HEAT_SETPOINT_F |-> 68 * TempScale, COOL_SETPOINT_F |-> 69 * TempScale,
       FAN_MODE |-> "Auto"],
      [HVAC_MODE |-> "Auto", HVAC_STATE |-> "", FAN_MODE |-> "Auto"] }

\* ------------------------------------------------------- fan push messages

FanData ==
    { [unknown_field |-> 1],
      [fan_state |-> [current_speed |-> 0]],
      [fan_state |-> [current_speed |-> 2]],
      [fan_state |-> [current_speed |-> 3]],
      [fan_state |-> [current_speed |-> 4]],
      [fan_state |-> [direction |-> 1]],
      [fan_setup |-> [preset_speed |-> 0]],
      [fan_setup |-> [preset_speed |-> 3]],
      [fan_state |-> [current_speed |-> 1, direction |-> 0],
       fan_setup |-> [preset_speed |-> 2, preset_count |-> 4]] }

FanOtherData == { [fan_state |-> [current_speed |-> 3]], [fan_setup |-> [preset_speed |-> 1]] }

FanMessages ==
    {False}
    \cup {[evtName |-> "OnDataToUI", data |-> d] : d \in FanData}
    \cup {[evtName |-> "OnPropertyChanged", data |-> d] : d \in FanOtherData}
    \cup {[data |-> d] : d \in FanOtherData}

FanSnapshots ==
    { [CURRENT_SPEED |-> 0, PRESET_SPEED |-> 0],
      [CURRENT_SPEED |-> 2, PRESET_SPEED |-> 3],
      [LIGHT_LEVEL |-> 0] }

\* mutant: the preset is taken from the speed the store held before the message
FanMerge_preset_from_store(attrs, data) ==
    LET a1 == IF "fan_state" \in DOMAIN data /\ "current_speed" \in DOMAIN data["fan_state"]
              THEN SetItem(attrs, "CURRENT_SPEED", data["fan_state"]["current_speed"])
              ELSE attrs
    IN  IF "fan_setup" \in DOMAIN data /\ "preset_speed" \in DOMAIN data["fan_setup"]
        THEN SetItem(a1, "PRESET_SPEED", Get(attrs, "CURRENT_SPEED"))
        ELSE a1

\* fan _update_callback, "OnDataToUI" branch: the store after the message
FanMerge(attrs, data) ==
    LET a1 == IF "fan_state" \in DOMAIN data /\ "current_speed" \in DOMAIN data["fan_state"]
              THEN SetItem(attrs, "CURRENT_SPEED", data["fan_state"]["current_speed"])
              ELSE attrs
    IN  IF "fan_setup" \in DOMAIN data /\ "preset_speed" \in DOMAIN data["fan_setup"]
        THEN SetItem(a1, "PRESET_SPEED", data["fan_setup"]["preset_speed"])
        ELSE a1

\* fan _update_callback, "OnDataToUI" branch: the message object after the call
\* (fan_state.pop("current_speed") and fan_setup.pop("preset_speed") act on the
\* caller's nested dicts)
FanPopped(m) ==
    LET data == m["data"]
        d1 == IF "fan_state" \in DOMAIN data /\ "current_speed" \in DOMAIN data["fan_state"]
              THEN SetItem(data, "fan_state", Pop(data["fan_state"], "current_speed"))
              ELSE data
        d2 == IF "fan_setup" \in DOMAIN d1 /\ "preset_speed" \in DOMAIN d1["fan_setup"]
              THEN SetItem(d1, "fan_setup", Pop(d1["fan_setup"], "preset_speed"))
              ELSE d1
    IN  SetItem(m, "data", d2)

\* ------------------------------------------------------- climate properties

KeyError == -2    \* a property read that raised KeyError

\* Control4Climate.hvac_mode ("KeyError" when the store has no HVAC_MODE entry)
hvac_mode(attrs) ==
    IF "HVAC_MODE" \notin DOMAIN attrs THEN "KeyError"
    ELSE IF attrs["HVAC_MODE"] = "" \/ attrs["HVAC_MODE"] \notin DOMAIN HVAC_MODES
    THEN HVACMode_OFF
    ELSE HVAC_MODES[attrs["HVAC_MODE"]]

\* Control4Climate.target_temperature_high
target_temperature_high(attrs) ==
    IF hvac_mode(attrs) = "KeyError" THEN KeyError
    ELSE IF hvac_mode(attrs) # HVACMode_HEAT_COOL THEN None
    ELSE IF "COOL_SETPOINT_F" \in DOMAIN attrs THEN attrs["COOL_SETPOINT_F"] ELSE KeyError

\* Control4Climate.target_temperature_low
target_temperature_low(attrs) ==
    IF hvac_mode(attrs) = "KeyError" THEN KeyError
    ELSE IF hvac_mode(attrs) # HVACMode_HEAT_COOL THEN None
    ELSE IF "HEAT_SETPOINT_F" \in DOMAIN attrs THEN attrs["HEAT_SETPOINT_F"] ELSE KeyError

\* mutant: the setpoint of the store is returned whatever the mode is
target_temperature_any_mode(attrs) ==
    IF "HEAT_SETPOINT_F" \in DOMAIN attrs THEN attrs["HEAT_SETPOINT_F"]
    ELSE IF "COOL_SETPOINT_F" \in DOMAIN attrs THEN attrs["COOL_SETPOINT_F"]
    ELSE None

\* Control4Climate.target_temperature
target_temperature(attrs) ==
    IF hvac_mode(attrs) = "KeyError" THEN KeyError
    ELSE IF hvac_mode(attrs) = HVACMode_HEAT /\ "HEAT_SETPOINT_F" \in DOMAIN attrs
    THEN attrs["HEAT_SETPOINT_F"]
    ELSE IF hvac_mode(attrs) = HVACMode_COOL /\ "COOL_SETPOINT_F" \in DOMAIN attrs
    THEN attrs["COOL_SETPOINT_F"]
    ELSE None

\* Control4Climate.aux_mode_active
aux_mode_active(attrs) == attrs["aux_mode_active"]

\* ------------------------------------------------------- climate commands

Truthy(x) == x # None /\ x # 0
Abs(x) == IF x < 0 THEN -x ELSE x
\* a hub command: <<method of the pyControl4 object, its argument>>
Cmd(name, a) == <<name, a>>
Plan(e, cs) == [exc |-> e, cmds |-> cs]

\* mutant: the forward table is indexed without the membership test
SetHvacModePlan_unchecked(attrs, mode) ==
    IF mode = HVACMode_HEAT
    THEN IF aux_mode_active(attrs)
         THEN Plan("none", <<Cmd("setHvacMode", CONTROL4_HVAC_MODE_AUX_HEAT)>>)
         ELSE Plan("none", <<Cmd("setHvacMode", CONTROL4_HVAC_MODE_HEAT)>>)
    ELSE IF mode \in DOMAIN CONTROL4_HVAC_MODES
         THEN Plan("none", <<Cmd("setHvacMode", CONTROL4_HVAC_MODES[mode])>>)
         ELSE Plan("KeyError", <<>>)

\* mutant: HEAT is translated through the forward table like every other mode
SetHvacModePlan_no_aux(attrs, mode) ==
    IF mode \in DOMAIN CONTROL4_HVAC_MODES
    THEN Plan("none", <<Cmd("setHvacMode", CONTROL4_HVAC_MODES[mode])>>)
    ELSE Plan("none", <<>>)

\* async_set_hvac_mode: the hub commands it sends
SetHvacModePlan(attrs, mode) ==
    IF mode = HVACMode_HEAT
    THEN IF aux_mode_active(attrs)
         THEN Plan("none", <<Cmd("setHvacMode", CONTROL4_HVAC_MODE_AUX_HEAT)>>)
         ELSE Plan("none", <<Cmd("setHvacMode", CONTROL4_HVAC_MODE_HEAT)>>)
    ELSE IF mode \in DOMAIN CONTROL4_HVAC_MODES
         THEN Plan("none", <<Cmd("setHvacMode", CONTROL4_HVAC_MODES[mode])>>)
         ELSE Plan("none", <<>>)     \* _LOGGER.exception(..., hvac_mode): logged only

\* async_set_fan_mode: the else branch logs `hvac_mode`, a name that is not
\* defined in this function, so evaluating the call's arguments raises NameError
SetFanModePlan(fan_mode) ==
    IF fan_mode \in DOMAIN CONTROL4_FAN_MODES
    THEN Plan("none", <<Cmd("setFanMode", CONTROL4_FAN_MODES[fan_mode])>>)
    ELSE Plan("NameError", <<>>)

\* mutant: the branches of the adjustment are exchanged (the bound that did not
\* change is the one held)
AdjustRange_hold_unchanged(low_temp, high_temp, tth) ==
    IF high_temp - low_temp < MIN_TEMP_RANGE * TempScale
    THEN IF Abs(high_temp - tth) < TOLERANCE
         THEN <<high_temp - MIN_TEMP_RANGE * TempScale, high_temp>>
         ELSE <<low_temp, low_temp + MIN_TEMP_RANGE * TempScale>>
    ELSE <<low_temp, high_temp>>

\* mutant: the requested range is sent as it came
AdjustRange_unadjusted(low_temp, high_temp, tth) == <<low_temp, high_temp>>

\* mutant: the adjustment always moves the low bound
AdjustRange_always_low(low_temp, high_temp, tth) ==
    IF high_temp - low_temp < MIN_TEMP_RANGE * TempScale
    THEN <<high_temp - MIN_TEMP_RANGE * TempScale, high_temp>>
    ELSE <<low_temp, high_temp>>

\* async_set_temperature, lines 410-416: <<low_temp, high_temp>> after the
\* minimum-gap adjustment, given self.target_temperature_high
AdjustRange(low_temp, high_temp, tth) ==
    IF high_temp - low_temp < MIN_TEMP_RANGE * TempScale
    THEN IF Abs(high_temp - tth) < TOLERANCE
         THEN <<low_temp, low_temp + MIN_TEMP_RANGE * TempScale>>
         ELSE <<high_temp - MIN_TEMP_RANGE * TempScale, high_temp>>
    ELSE <<low_temp, high_temp>>

\* async_set_temperature, the try body: what it sends, or the exception it
\* raises before the first await
SetTemperaturePlan(attrs, kwargs) ==
    LET low_temp == Get(kwargs, "target_temp_low")
        high_temp == Get(kwargs, "target_temp_high")
        temp == Get(kwargs, "temperature")
        mode == hvac_mode(attrs)
    IN  IF mode = "KeyError" THEN Plan("KeyError", <<>>)
        ELSE IF mode = HVACMode_HEAT_COOL
        THEN IF Truthy(low_temp) /\ Truthy(high_temp)
             THEN IF high_temp - low_temp < MIN_TEMP_RANGE * TempScale
                     /\ target_temperature_high(attrs) = KeyError
                  THEN Plan("KeyError", <<>>)
                  ELSE LET r == AdjustRange(low_temp, high_temp,
                                            target_temperature_high(attrs))
                       IN  Plan("none", <<Cmd("setHeatSetpoint", r[1]),
                                          Cmd("setCoolSetpoint", r[2])>>)
             ELSE Plan("none", <<>>)
        ELSE IF mode = HVACMode_COOL /\ Truthy(temp)
        THEN Plan("none", <<Cmd("setCoolSetpoint", temp)>>)
        ELSE IF mode = HVACMode_HEAT /\ Truthy(temp)
        THEN Plan("none", <<Cmd("setHeatSetpoint", temp)>>)
        ELSE Plan("none", <<>>)

\* async_set_temperature, `except C4Exception as err: raise UpdateFailed(...)`:
\* the exception that leaves the try statement when `exc` is raised inside it.
\* The import of C4Exception is commented out (line 8), so matching the except
\* clause evaluates an undefined name and raises NameError, whatever `exc` is.
ExceptC4Exception(exc) == "NameError"

\* the exception the caller of coroutine `op` sees when `exc` is raised in it
Propagate(op, exc) == IF op = "async_set_temperature" THEN ExceptC4Exception(exc) ELSE exc

\* ----------------------------------------------------------- fan commands

\* a Python int passed to the hub (a float is kept as hundredths, see
\* percentage_to_ranged_value)
PyInt(n) == [int |-> n]

\* Control4Fan.async_turn_on
TurnOnPlan(attrs) ==
    IF "PRESET_SPEED" \notin DOMAIN attrs THEN Plan("KeyError", <<>>)
    ELSE IF attrs["PRESET_SPEED"] # 0
         THEN Plan("none", <<Cmd("setSpeed", PyInt(attrs["PRESET_SPEED"]))>>)
         ELSE Plan("none", <<Cmd("setSpeed", PyInt(1))>>)

\* Control4Fan.async_turn_off
TurnOffPlan == Plan("none", <<Cmd("setSpeed", PyInt(0))>>)

\* Control4Fan.is_on (a property)
is_on(attrs) == attrs["CURRENT_SPEED"] # 0

\* homeassistant.util.percentage.ranged_value_to_percentage((low, high), value):
\* int(((value - (low - 1)) * 100) // (high - low + 1))
ranged_value_to_percentage(low, high, value) ==
    ((value - (low - 1)) * 100) \div (high - low + 1)

\* mutant: the speed range is taken to start at 0
percentage_from_zero(attrs) == ranged_value_to_percentage(0, 4, attrs["CURRENT_SPEED"])

\* Control4Fan.percentage
percentage(attrs) == ranged_value_to_percentage(1, 4, attrs["CURRENT_SPEED"])

\* Control4Fan.percentage_step
percentage_step == 25

\* Control4Fan.async_toggle: `self.is_on()` reads the property (KeyError when the
\* speed was never stored) and then calls the bool it returned: TypeError
TogglePlan(attrs) ==
    IF "CURRENT_SPEED" \notin DOMAIN attrs THEN Plan("KeyError", <<>>)
    ELSE Plan("TypeError", <<>>)

\* homeassistant percentage_to_ranged_value((1, 4), percentage) = 4 * percentage / 100,
\* a float; kept exact as a count of hundredths
percentage_to_ranged_value(pct) == [float_x100 |-> 4 * pct]

\* Control4Fan.async_set_percentage
SetPercentagePlan(pct) ==
    Plan("none", <<Cmd("setSpeed", percentage_to_ranged_value(pct))>>)

\* Control4Fan.async_set_preset_mode
SetPresetPlan(preset_mode) == Plan("none", <<Cmd("setPreset", PyInt(preset_mode))>>)

\* ------------------------------------------------------------- inputs

HvacModeRequests == {HVACMode_OFF, HVACMode_HEAT, HVACMode_COOL, HVACMode_HEAT_COOL, "dry"}
FanModeRequests == {FAN_ON, FAN_AUTO, FAN_DIFFUSE, "low"}
TemperatureRequests ==
    { [temperature |-> 70 * TempScale],
      [target_temp_low |-> 68 * TempScale],
      [target_temp_high |-> 69 * TempScale] }
    \cup { [target_temp_low |-> 0, target_temp_high |-> 72 * TempScale] }
    \cup { [target_temp_low |-> 68 * TempScale, target_temp_high |-> h] :
             h \in {69 * TempScale, 69 * TempScale + 5, 69 * TempScale + TOLERANCE,
                    72 * TempScale} }
Percentages == {0, 25, 33, 50, 100}
Presets == 0..4

\* ----------------------------------------------------------------- state

NoArgs == <<>>
NoCall == [op |-> "none", arg |-> NoArgs, pc |-> "idle", exc |-> "none", hub |-> "none",
           todo |-> <<>>]

Init ==
    /\ cls \in {"climate", "fan"}
    /\ IF cls = "climate"
       THEN \E s \in ClimateSnapshots :
               \* Control4Climate.__init__: store seeded, then aux_mode_active = False
               extra_state_attributes = SetItem(s, "aux_mode_active", FALSE)
       ELSE extra_state_attributes \in FanSnapshots
    /\ attr_available = TRUE
    /\ push = [kind |-> "none", exc |-> "none", scheduled |-> FALSE, intact |-> TRUE]
    /\ call = NoCall
    /\ dispatched = <<>>

\* What one _update_callback(device, m) invocation did: the branch it took, the
\* exception it raised, whether it called schedule_update_ha_state, and whether
\* the message object `after` the call is still the message that was delivered.
Pushed(m, after, e, s) ==
    [kind |-> MessageKind(m), exc |-> e, scheduled |-> s, intact |-> (after = m)]

\* _update_callback, `elif message["evtName"] == "OnDataToUI"` is reached and true
IsDataToUI(m) == m # False /\ "evtName" \in DOMAIN m /\ m["evtName"] = "OnDataToUI"

\* _update_callback: the exception the call raises (message["evtName"] on a
\* message without that key), "none" when it completes
CallbackExc(m) == IF m # False /\ "evtName" \notin DOMAIN m THEN "KeyError" ELSE "none"

\* mutant: the notification is sent only when the message changed the store
ScheduledAfter_on_change(before, after, m) == CallbackExc(m) = "none" /\ after # before

\* _update_callback (both classes): schedule_update_ha_state() is the last
\* statement, outside the if / elif: it is reached unless the call raised.
\* `before` and `after` are the store before and after the call.
ScheduledAfter(before, after, m) == CallbackExc(m) = "none"

\* mutant: every message that is not the disconnect sentinel marks the device
\* available
AvailableAfter_any_envelope(available, m) == m # False

\* _update_callback (both classes): self._attr_available after the call
AvailableAfter(available, m) ==
    IF m = False THEN FALSE
    ELSE IF IsDataToUI(m) THEN TRUE
    ELSE available

\* mutant: the envelope name is not checked before the payload is merged
ClimateStoreAfter_any_envelope(attrs, m) ==
    IF m # False /\ "data" \in DOMAIN m THEN ClimateMerge(attrs, m["data"]) ELSE attrs

\* Control4Climate._update_callback: self._extra_state_attributes after the call
ClimateStoreAfter(attrs, m) ==
    IF IsDataToUI(m) THEN ClimateMerge(attrs, m["data"]) ELSE attrs

\* mutant: a disconnect resets what the fan had accumulated
FanStoreAfter_reset_on_disconnect(attrs, m) ==
    IF m = False THEN [k \in {} |-> 0]
    ELSE IF IsDataToUI(m) THEN FanMerge(attrs, m["data"]) ELSE attrs

\* Control4Fan._update_callback: self._extra_state_attributes after the call
FanStoreAfter(attrs, m) ==
    IF IsDataToUI(m) THEN FanMerge(attrs, m["data"]) ELSE attrs

\* Control4Fan._update_callback: the message object after the call
FanMessageAfter(m) == IF IsDataToUI(m) THEN FanPopped(m) ELSE m

\* Control4Climate._update_callback(device, message)
climate_update_callback(m) ==
    /\ cls = "climate"
    /\ attr_available' = AvailableAfter(attr_available, m)
    /\ extra_state_attributes' = ClimateStoreAfter(extra_state_attributes, m)
    /\ push' = Pushed(m, m, CallbackExc(m),
                      ScheduledAfter(extra_state_attributes,
                                     ClimateStoreAfter(extra_state_attributes, m), m))
    /\ UNCHANGED <<cls, call, dispatched>>

\* Control4Fan._update_callback(device, message)
fan_update_callback(m) ==
    /\ cls = "fan"
    /\ attr_available' = AvailableAfter(attr_available, m)
    /\ extra_state_attributes' = FanStoreAfter(extra_state_attributes, m)
    /\ push' = Pushed(m, FanMessageAfter(m), CallbackExc(m),
                      ScheduledAfter(extra_state_attributes,
                                     FanStoreAfter(extra_state_attributes, m), m))
    /\ UNCHANGED <<cls, call, dispatched>>

\* A command coroutine is entered and runs to its first await (or to its end).
\* `plan` is what its body sends / raises before the first await.
Enter(op, arg, plan) ==
    /\ call.pc # "await"
    /\ LET base == [op |-> op, arg |-> arg, hub |-> "none"]
       IN  IF plan.exc # "none"
           THEN /\ call' = base @@ [pc |-> "raised", exc |-> Propagate(op, plan.exc),
                                    todo |-> <<>>]
                /\ dispatched' = <<>>
           ELSE IF plan.cmds = <<>>
           THEN /\ call' = base @@ [pc |-> "done", exc |-> "none", todo |-> <<>>]
                /\ dispatched' = <<>>
           ELSE /\ call' = base @@ [pc |-> "await", exc |-> "none", todo |-> Tail(plan.cmds)]
                /\ dispatched' = <<Head(plan.cmds)>>
    /\ UNCHANGED <<cls, attr_available, push>>

\* mutant: the requested mode is written to the store before the hub confirms it
async_set_hvac_mode_optimistic(mode) ==
    /\ cls = "climate"
    /\ Enter("async_set_hvac_mode", [hvac_mode |-> mode], SetHvacModePlan(extra_state_attributes, mode))
    /\ extra_state_attributes' =
          IF mode \in DOMAIN CONTROL4_HVAC_MODES
          THEN SetItem(extra_state_attributes, "HVAC_MODE", CONTROL4_HVAC_MODES[mode])
          ELSE extra_state_attributes

\* Control4Climate.async_set_hvac_mode(hvac_mode)
async_set_hvac_mode(mode) ==
    /\ cls = "climate"
    /\ Enter("async_set_hvac_mode", [hvac_mode |-> mode], SetHvacModePlan(extra_state_attributes, mode))
    /\ UNCHANGED extra_state_attributes

\* Control4Climate.async_set_fan_mode(fan_mode)
async_set_fan_mode(fan_mode) ==
    /\ cls = "climate"
    /\ Enter("async_set_fan_mode", [fan_mode |-> fan_mode], SetFanModePlan(fan_mode))
    /\ UNCHANGED extra_state_attributes

\* Control4Climate.async_set_temperature(**kwargs)
async_set_temperature(kwargs) ==
    /\ cls = "climate"
    /\ Enter("async_set_temperature", kwargs,
             SetTemperaturePlan(extra_state_attributes, kwargs))
    /\ UNCHANGED extra_state_attributes

\* Control4Climate.async_turn_aux_heat_off()
async_turn_aux_heat_off ==
    /\ cls = "climate"
    /\ Enter("async_turn_aux_heat_off", NoArgs, Plan("none", <<>>))
    /\ extra_state_attributes' = SetItem(extra_state_attributes, "aux_mode_active", FALSE)

\* Control4Climate.async_turn_aux_heat_on()
async_turn_aux_heat_on ==
    /\ cls = "climate"
    /\ Enter("async_turn_aux_heat_on", NoArgs, Plan("none", <<>>))
    /\ extra_state_attributes' = SetItem(extra_state_attributes, "aux_mode_active", TRUE)

\* Control4Fan.async_turn_on()
async_turn_on ==
    /\ cls = "fan"
    /\ Enter("async_turn_on", NoArgs, TurnOnPlan(extra_state_attributes))
    /\ UNCHANGED extra_state_attributes

\* Control4Fan.async_turn_off()
async_turn_off ==
    /\ cls = "fan"
    /\ Enter("async_turn_off", NoArgs, TurnOffPlan)
    /\ UNCHANGED extra_state_attributes

\* Control4Fan.async_toggle()
async_toggle ==
    /\ cls = "fan"
    /\ Enter("async_toggle", NoArgs, TogglePlan(extra_state_attributes))
    /\ UNCHANGED extra_state_attributes

\* Control4Fan.async_set_percentage(percentage)
async_set_percentage(pct) ==
    /\ cls = "fan"
    /\ Enter("async_set_percentage", [percentage |-> pct], SetPercentagePlan(pct))
    /\ UNCHANGED extra_state_attributes

\* Control4Fan.async_set_preset_mode(preset_mode)
async_set_preset_mode(preset_mode) ==
    /\ cls = "fan"
    /\ Enter("async_set_preset_mode", [preset_mode |-> preset_mode], SetPresetPlan(preset_mode))
    /\ UNCHANGED extra_state_attributes

\* mutant: on resuming, the coroutine looks at the mode of the store again and
\* drops the command it had left when the mode is no longer HEAT_COOL
HubReturns_mode_rechecked ==
    /\ call.pc = "await"
    /\ IF call.todo # <<>> /\ hvac_mode(extra_state_attributes) = HVACMode_HEAT_COOL
       THEN /\ dispatched' = Append(dispatched, Head(call.todo))
            /\ call' = [call EXCEPT !.todo = Tail(call.todo), !.hub = "ok"]
       ELSE /\ call' = [call EXCEPT !.pc = "done", !.hub = "ok", !.todo = <<>>]
            /\ UNCHANGED dispatched
    /\ UNCHANGED <<cls, extra_state_attributes, attr_available, push>>

\* The awaited hub command returns: the coroutine resumes and runs to its next
\* await (the next command it had computed) or to its end.
HubReturns ==
    /\ call.pc = "await"
    /\ IF call.todo # <<>>
       THEN /\ dispatched' = Append(dispatched, Head(call.todo))
            /\ call' = [call EXCEPT !.todo = Tail(call.todo), !.hub = "ok"]
       ELSE /\ call' = [call EXCEPT !.pc = "done", !.hub = "ok"]
            /\ UNCHANGED dispatched
    /\ UNCHANGED <<cls, extra_state_attributes, attr_available, push>>

\* The awaited hub command raises C4Exception into the coroutine.
HubRaises ==
    /\ call.pc = "await"
    /\ call' = [call EXCEPT !.pc = "raised", !.hub = "C4Exception", !.todo = <<>>,
                            !.exc = Propagate(call.op, "C4Exception")]
    /\ UNCHANGED <<cls, extra_state_attributes, attr_available, push, dispatched>>

\* The task is cancelled while suspended: CancelledError is raised at the await.
Cancelled ==
    /\ call.pc = "await"
    /\ call' = [call EXCEPT !.pc = "raised", !.hub = "cancelled", !.todo = <<>>,
                            !.exc = Propagate(call.op, "CancelledError")]
    /\ UNCHANGED <<cls, extra_state_attributes, attr_available, push, dispatched>>

Command ==
    \/ \E mode \in HvacModeRequests : async_set_hvac_mode(mode)
    \/ \E fan_mode \in FanModeRequests : async_set_fan_mode(fan_mode)
    \/ \E kwargs \in TemperatureRequests : async_set_temperature(kwargs)
    \/ async_turn_aux_heat_off
    \/ async_turn_aux_heat_on
    \/ async_turn_on
    \/ async_turn_off
    \/ async_toggle
    \/ \E pct \in Percentages : async_set_percentage(pct)
    \/ \E preset_mode \in Presets : async_set_preset_mode(preset_mode)
    \/ HubReturns
    \/ HubRaises
    \/ Cancelled

Next ==
    \/ \E m \in ClimateMessages : climate_update_callback(m)
    \/ \E m \in FanMessages : fan_update_callback(m)
    \/ Command

Spec == Init /\ [][Next]_vars

\* ------------------------------------------------------------ properties

Store == extra_state_attributes
OtherEnvelope(m) == m # False /\ "evtName" \in DOMAIN m /\ m["evtName"] # "OnDataToUI"
Sent(name, a) == <<name, a>>
Degrees(n) == n * TempScale

\* C1: a push message that is not the disconnect sentinel and whose evtName is
\* not "OnDataToUI" leaves every store entry and the availability flag as they
\* were, and the callback completes without raising (climate and fan).
C1_OtherEnvelopeIgnored ==
    [][ /\ \A m \in ClimateMessages :
             (climate_update_callback(m) /\ OtherEnvelope(m))
                => (Store' = Store /\ attr_available' = attr_available
                    /\ push'.exc = "none")
        /\ \A m \in FanMessages :
             (fan_update_callback(m) /\ OtherEnvelope(m))
                => (Store' = Store /\ attr_available' = attr_available
                    /\ push'.exc = "none") ]_vars

\* a thermostat that had merged a payload and been disconnected received a
\* message with another envelope name
C1_Witness ==
    /\ cls = "climate"
    /\ push.kind = "other"
    /\ push.exc = "none"
    /\ "TEMPERATURE" \in DOMAIN Store
    /\ ~attr_available

\* C2: on the disconnect sentinel availability becomes false and every store
\* entry keeps the value it had (nothing is cleared), climate and fan.
C2_DisconnectKeepsStore ==
    [][ /\ \A m \in ClimateMessages :
             (climate_update_callback(m) /\ m = False)
                => (attr_available' = FALSE /\ Store' = Store)
        /\ \A m \in FanMessages :
             (fan_update_callback(m) /\ m = False)
                => (attr_available' = FALSE /\ Store' = Store) ]_vars

\* a fan that had stored a pushed speed was disconnected
C2_Witness ==
    /\ cls = "fan"
    /\ push.kind = "disconnect"
    /\ ~attr_available
    /\ "CURRENT_SPEED" \in DOMAIN Store
    /\ Store["CURRENT_SPEED"] = 4

FieldOf(i) == CLIMATE_FIELDS[i][1]
KeyOf(i) == CLIMATE_FIELDS[i][2]

\* C3: an "OnDataToUI" message copies each of the 15 recognized fields present in
\* its payload verbatim to the field's store key and leaves every other store key
\* with the value it had before the message.
C3_PartialMerge ==
    [][ \A m \in ClimateMessages :
          (climate_update_callback(m) /\ m # False /\ "evtName" \in DOMAIN m
             /\ m["evtName"] = "OnDataToUI")
          => LET data == m["data"]
                 written == {KeyOf(i) : i \in {j \in 1..15 : FieldOf(j) \in DOMAIN data}}
             IN  /\ Len(CLIMATE_FIELDS) = 15
                 /\ \A i \in 1..15 :
                       FieldOf(i) \in DOMAIN data
                          => (KeyOf(i) \in DOMAIN Store' /\ Store'[KeyOf(i)] = data[FieldOf(i)])
                 /\ DOMAIN Store' = DOMAIN Store \cup written
                 /\ \A k \in DOMAIN Store \ written : Store'[k] = Store[k] ]_vars

\* a store holding a humidity from one push next to a heating mode from a later
\* push and a cool setpoint that only the snapshot carried
C3_Witness ==
    /\ cls = "climate"
    /\ push.kind = "data"
    /\ "HUMIDITY" \in DOMAIN Store /\ Store["HUMIDITY"] = 45
    /\ Store["HVAC_MODE"] = "Heat"
    /\ "COOL_SETPOINT_F" \in DOMAIN Store /\ Store["COOL_SETPOINT_F"] = Degrees(69)

\* C4 as stated: no step of a command operation changes any store entry.
C4_CommandsNeverWrite == [][Command => Store' = Store]_vars

\* C4 as amended: a step of a command operation changes no store entry other
\* than aux_mode_active, and only async_turn_aux_heat_on / _off change that one;
\* every other command, completing, failing or cancelled, leaves the store as is.
C4_CommandsWriteOnlyAuxFlag ==
    [][ Command =>
          /\ DOMAIN Store' = DOMAIN Store
          /\ \A k \in DOMAIN Store \ {"aux_mode_active"} : Store'[k] = Store[k]
          /\ Store' # Store =>
                call'.op \in {"async_turn_aux_heat_on", "async_turn_aux_heat_off"} ]_vars

\* a set-temperature call was cancelled while suspended on its second hub call,
\* after pushes had been merged
C4_Witness ==
    /\ cls = "climate"
    /\ call.op = "async_set_temperature"
    /\ call.hub = "cancelled"
    /\ Len(dispatched) = 2
    /\ push.kind = "data"

\* C5: a hub failure raised by setHeatSetpoint / setCoolSetpoint during
\* async_set_temperature reaches the caller as UpdateFailed and as nothing else.
C5_HubFailureIsUpdateFailed ==
    (call.op = "async_set_temperature" /\ call.hub = "C4Exception")
       => (call.pc = "raised" /\ call.exc = "UpdateFailed")

\* the inputs of the range adjustment: HEAT_COOL, both bounds supplied (truthy),
\* gap below MIN_TEMP_RANGE, a previous high setpoint in the store
NarrowRange(kwargs) ==
    /\ hvac_mode(Store) = HVACMode_HEAT_COOL
    /\ "target_temp_low" \in DOMAIN kwargs /\ kwargs["target_temp_low"] # 0
    /\ "target_temp_high" \in DOMAIN kwargs /\ kwargs["target_temp_high"] # 0
    /\ kwargs["target_temp_high"] - kwargs["target_temp_low"] < Degrees(2)
    /\ "COOL_SETPOINT_F" \in DOMAIN Store

HighUnchanged(kwargs) ==
    /\ kwargs["target_temp_high"] - Store["COOL_SETPOINT_F"] < 10
    /\ Store["COOL_SETPOINT_F"] - kwargs["target_temp_high"] < 10

\* the commands the call entered by this step sends, in order, if the hub
\* answers each of them
WillSend == dispatched' \o call'.todo

\* C6 as stated: with a narrow range, a requested high equal (within 0.01) to the
\* previous high is held and low is moved to high - 2; otherwise low is held and
\* high is moved to low + 2.
C6_UnchangedBoundHeld ==
    [][ \A kwargs \in TemperatureRequests :
          (async_set_temperature(kwargs) /\ NarrowRange(kwargs))
          => LET low == kwargs["target_temp_low"]
                 high == kwargs["target_temp_high"]
             IN  IF HighUnchanged(kwargs)
                 THEN WillSend = <<Sent("setHeatSetpoint", high - Degrees(2)),
                                   Sent("setCoolSetpoint", high)>>
                 ELSE WillSend = <<Sent("setHeatSetpoint", low),
                                   Sent("setCoolSetpoint", low + Degrees(2))>> ]_vars

\* C6 as amended: with a narrow range, when the requested high equals the
\* previous high within 0.01, low is held and high is moved to low + 2;
\* otherwise high is held and low is moved to high - 2.
C6_UnchangedBoundMoved ==
    [][ \A kwargs \in TemperatureRequests :
          (async_set_temperature(kwargs) /\ NarrowRange(kwargs))
          => LET low == kwargs["target_temp_low"]
                 high == kwargs["target_temp_high"]
             IN  IF HighUnchanged(kwargs)
                 THEN WillSend = <<Sent("setHeatSetpoint", low),
                                   Sent("setCoolSetpoint", low + Degrees(2))>>
                 ELSE WillSend = <<Sent("setHeatSetpoint", high - Degrees(2)),
                                   Sent("setCoolSetpoint", high)>> ]_vars

\* low=68, high=69.01 with previous high 69: the requested high differs by the
\* tolerance, so it is held and low was moved to 67.01
C6_Witness ==
    /\ call.op = "async_set_temperature"
    /\ call.pc = "done"
    /\ call.arg = [target_temp_low |-> Degrees(68), target_temp_high |-> Degrees(69) + 10]
    /\ dispatched = <<Sent("setHeatSetpoint", Degrees(67) + 10),
                      Sent("setCoolSetpoint", Degrees(69) + 10)>>

\* C7: with a narrow range and the requested high equal to the previous high
\* setpoint, the call sends setHeatSetpoint(low) and then setCoolSetpoint(low + 2),
\* in that order, the second once the hub has answered the first.
C7_HighPushedUp ==
    [][ /\ \A kwargs \in TemperatureRequests :
             (async_set_temperature(kwargs) /\ NarrowRange(kwargs)
                /\ kwargs["target_temp_high"] = Store["COOL_SETPOINT_F"])
             => /\ dispatched' = <<Sent("setHeatSetpoint", kwargs["target_temp_low"])>>
                /\ call'.todo = <<Sent("setCoolSetpoint",
                                       kwargs["target_temp_low"] + Degrees(2))>>
                /\ call'.pc = "await"
        /\ (call.op = "async_set_temperature" /\ call.pc = "await" /\ HubReturns)
             => /\ dispatched' \o call'.todo = dispatched \o call.todo
                /\ call'.pc = "done" <=> call.todo = <<>>
                /\ call.todo # <<>> => dispatched' = Append(dispatched, Head(call.todo))
      ]_vars

\* low=68, high=69 with previous high 69: setHeatSetpoint(68), setCoolSetpoint(70)
C7_Witness ==
    /\ call.op = "async_set_temperature"
    /\ call.pc = "done"
    /\ call.arg = [target_temp_low |-> Degrees(68), target_temp_high |-> Degrees(69)]
    /\ dispatched = <<Sent("setHeatSetpoint", Degrees(68)),
                      Sent("setCoolSetpoint", Degrees(70))>>

\* C8: async_set_fan_mode with a mode absent from CONTROL4_FAN_MODES sends no
\* command and returns without an exception; with a mode of the table it sends
\* setFanMode with the mapped vendor string.
C8_UnknownFanModeSwallowed ==
    call.op = "async_set_fan_mode"
       => IF call.arg.fan_mode \in {"on", "auto", "diffuse"}
          THEN dispatched = <<Sent("setFanMode",
                                   CASE call.arg.fan_mode = "on" -> "On"
                                     [] call.arg.fan_mode = "auto" -> "Auto"
                                     [] call.arg.fan_mode = "diffuse" -> "Circulate")>>
          ELSE dispatched = <<>> /\ call.pc = "done" /\ call.exc = "none"

\* C9: async_set_hvac_mode with a mode that is not HEAT and not in
\* CONTROL4_HVAC_MODES sends nothing and returns without raising; with OFF, COOL
\* or HEAT_COOL it sends setHvacMode("Off" / "Cool" / "Auto").
C9_UnknownHvacModeSwallowed ==
    (call.op = "async_set_hvac_mode" /\ call.arg.hvac_mode # "heat")
       => IF call.arg.hvac_mode \in {"off", "cool", "heat_cool"}
          THEN dispatched = <<Sent("setHvacMode",
                                   CASE call.arg.hvac_mode = "off" -> "Off"
                                     [] call.arg.hvac_mode = "cool" -> "Cool"
                                     [] call.arg.hvac_mode = "heat_cool" -> "Auto")>>
          ELSE dispatched = <<>> /\ call.pc = "done" /\ call.exc = "none"

\* an unsupported mode was requested and the call returned
C9_Witness ==
    /\ call.op = "async_set_hvac_mode"
    /\ call.arg.hvac_mode = "dry"
    /\ call.pc = "done"
    /\ dispatched = <<>>

\* C10: the aux-heat toggles send nothing and set the flag (initially off) on /
\* off; no other step, a push included, changes the flag; async_set_hvac_mode(HEAT)
\* sends "Emergency Heat" exactly when the flag is on, "Heat" otherwise.
C10_AuxHeatToggle ==
    /\ (cls = "climate" => Store["aux_mode_active"] = FALSE)
    /\ [][ cls = "climate" =>
            /\ async_turn_aux_heat_on
                 => (Store'["aux_mode_active"] = TRUE /\ dispatched' = <<>>
                     /\ call'.pc = "done")
            /\ async_turn_aux_heat_off
                 => (Store'["aux_mode_active"] = FALSE /\ dispatched' = <<>>
                     /\ call'.pc = "done")
            /\ ~(async_turn_aux_heat_on \/ async_turn_aux_heat_off)
                 => Store'["aux_mode_active"] = Store["aux_mode_active"]
            /\ async_set_hvac_mode("heat")
                 => dispatched' = <<Sent("setHvacMode",
                                         IF Store["aux_mode_active"] THEN "Emergency Heat"
                                         ELSE "Heat")>> ]_vars

\* HEAT was requested after a turn-on and a later push: "Emergency Heat" was sent
C10_Witness ==
    /\ cls = "climate"
    /\ call.op = "async_set_hvac_mode"
    /\ call.arg.hvac_mode = "heat"
    /\ call.pc = "done"
    /\ dispatched = <<Sent("setHvacMode", "Emergency Heat")>>
    /\ push.kind = "data"
    /\ Store["HVAC_MODE"] = "Cool"

\* the normalized mode, read off the raw HVAC_MODE string of the store
RawModeIs(modes) == Store["HVAC_MODE"] \in modes

\* C11: in every reachable climate state target_temperature is the heat setpoint
\* (F) under HEAT, the cool setpoint (F) under COOL, unset when that key is absent
\* and unset in every other mode; target_temperature_high / _low are set only
\* under HEAT_COOL and unset in every other mode; none of these reads raises there.
C11_TargetsFollowMode ==
    cls = "climate" =>
       /\ RawModeIs({"Heat", "Emergency Heat"})
            => /\ target_temperature(Store) = Get(Store, "HEAT_SETPOINT_F")
               /\ target_temperature_high(Store) = None
               /\ target_temperature_low(Store) = None
       /\ RawModeIs({"Cool"})
            => /\ target_temperature(Store) = Get(Store, "COOL_SETPOINT_F")
               /\ target_temperature_high(Store) = None
               /\ target_temperature_low(Store) = None
       /\ RawModeIs({"Auto"})
            => /\ target_temperature(Store) = None
               /\ "COOL_SETPOINT_F" \in DOMAIN Store
                    => target_temperature_high(Store) = Store["COOL_SETPOINT_F"]
               /\ "HEAT_SETPOINT_F" \in DOMAIN Store
                    => target_temperature_low(Store) = Store["HEAT_SETPOINT_F"]
       /\ ~RawModeIs({"Heat", "Emergency Heat", "Cool", "Auto"})
            => /\ target_temperature(Store) = None
               /\ target_temperature_high(Store) = None
               /\ target_temperature_low(Store) = None

\* an empty raw mode was pushed to a thermostat holding both setpoints: every
\* target reads unset
C11_Witness ==
    /\ cls = "climate"
    /\ Store["HVAC_MODE"] = ""
    /\ "HEAT_SETPOINT_F" \in DOMAIN Store
    /\ "COOL_SETPOINT_F" \in DOMAIN Store
    /\ target_temperature(Store) = None
    /\ target_temperature_high(Store) = None

\* C12: async_toggle dispatches what async_turn_off dispatches (setSpeed(0)) when
\* the fan is on and what async_turn_on dispatches when it is off, and completes
\* without raising in both cases.
C12_ToggleDispatches ==
    [][ async_toggle =>
          /\ call'.exc = "none"
          /\ WillSend = IF "CURRENT_SPEED" \in DOMAIN Store /\ Store["CURRENT_SPEED"] # 0
                        THEN TurnOffPlan.cmds
                        ELSE TurnOnPlan(Store).cmds ]_vars

\* the value a dispatched speed stands for, in hundredths
SpeedX100(v) == IF "int" \in DOMAIN v THEN 100 * v.int ELSE v.float_x100

\* C13: for every percentage 0..100 async_set_percentage passes setSpeed an
\* integer in 0..4, the step of the 1..4 range nearest to the percentage; no
\* non-integer speed is dispatched.
C13_PercentageToIntegerSpeed ==
    (call.op = "async_set_percentage" /\ dispatched # <<>>) =>
        LET v == SpeedX100(dispatched[1][2])
        IN  /\ dispatched[1][1] = "setSpeed"
            /\ v % 100 = 0
            /\ v \div 100 \in 0..4
            /\ Abs(25 * (v \div 100) - call.arg.percentage) <= 12

\* the payload of a data message carries fan_setup.preset_speed
CarriesPreset(m) ==
    /\ IsDataToUI(m)
    /\ "fan_setup" \in DOMAIN m["data"]
    /\ "preset_speed" \in DOMAIN m["data"]["fan_setup"]

\* C14: async_turn_on dispatches setSpeed(p) when a nonzero preset p is known and
\* setSpeed(1) in every other case (preset 0, or no preset observed yet), without
\* raising; async_turn_off dispatches setSpeed(0); the preset is the one of the
\* most recent push that carried fan_setup.preset_speed.
C14_TurnOnUsesPreset ==
    [][ /\ async_turn_on =>
              /\ call'.exc = "none"
              /\ WillSend = <<Sent("setSpeed",
                       PyInt(IF "PRESET_SPEED" \in DOMAIN Store /\ Store["PRESET_SPEED"] # 0
                             THEN Store["PRESET_SPEED"] ELSE 1))>>
        /\ async_turn_off => (call'.exc = "none" /\ WillSend = <<Sent("setSpeed", PyInt(0))>>)
        /\ \A m \in FanMessages :
              (fan_update_callback(m) /\ CarriesPreset(m))
                 => Store'["PRESET_SPEED"] = m["data"]["fan_setup"]["preset_speed"] ]_vars

\* C15: delivering the same message twice leaves the store equal to the store
\* after delivering it once, for the climate reducer and for the fan reducer (for
\* the fan, whether the second delivery is of an equal message or of the very
\* object the first delivery popped its fields from).
C15_ReducerIdempotent ==
    /\ cls = "climate" =>
          \A m \in ClimateMessages :
             ClimateStoreAfter(ClimateStoreAfter(Store, m), m) = ClimateStoreAfter(Store, m)
    /\ cls = "fan" =>
          \A m \in FanMessages :
             /\ FanStoreAfter(FanStoreAfter(Store, m), m) = FanStoreAfter(Store, m)
             /\ FanStoreAfter(FanStoreAfter(Store, m), FanMessageAfter(m)) = FanStoreAfter(Store, m)

\* the fan store right after a push carrying both speeds, on which that message
\* acts again without effect
C15_Witness ==
    /\ cls = "fan"
    /\ push.kind = "data"
    /\ Store = [CURRENT_SPEED |-> 1, PRESET_SPEED |-> 2]
    /\ \E m \in FanMessages :
          /\ CarriesPreset(m)
          /\ m["data"]["fan_setup"]["preset_speed"] = 2
          /\ FanStoreAfter(Store, m) = Store

\* C16: a push message without an evtName field is silently ignored: the callback
\* raises nothing and leaves the store and the availability as they were.
C16_MissingEnvelopeIgnored ==
    [][ /\ \A m \in ClimateMessages :
             (climate_update_callback(m) /\ m # False /\ "evtName" \notin DOMAIN m)
                => (push'.exc = "none" /\ Store' = Store /\ attr_available' = attr_available)
        /\ \A m \in FanMessages :
             (fan_update_callback(m) /\ m # False /\ "evtName" \notin DOMAIN m)
                => (push'.exc = "none" /\ Store' = Store /\ attr_available' = attr_available)
      ]_vars

\* C17: every "OnDataToUI" message delivered to the climate reducer completes and
\* triggers schedule_update_ha_state, also when its payload has no recognized
\* field; so n data messages give at least n notifications.
C17_DataMessageNotifies ==
    [][ \A m \in ClimateMessages :
          (climate_update_callback(m) /\ IsDataToUI(m))
             => (push'.exc = "none" /\ push'.scheduled) ]_vars

\* a data message was delivered to a thermostat whose store is still the
\* snapshot with raw mode "Off" (no payload carries that mode: the message had
\* no field that changed the store) and the notification was scheduled
C17_Witness ==
    /\ cls = "climate"
    /\ push.kind = "data"
    /\ push.scheduled
    /\ \E snap \in ClimateSnapshots :
          /\ snap["HVAC_MODE"] = "Off"
          /\ Store = SetItem(snap, "aux_mode_active", FALSE)

\* C18: for every current speed s in 0..4, is_on is true exactly when s # 0,
\* percentage is 25 * s, and percentage_step is 25.
C18_FanStateDerivation ==
    (cls = "fan" /\ "CURRENT_SPEED" \in DOMAIN Store) =>
        LET s == Store["CURRENT_SPEED"]
        IN  /\ s \in 0..4
            /\ is_on(Store) <=> s # 0
            /\ percentage(Store) = 25 * s
            /\ percentage_step = 25

\* speed 3 was pushed: the fan is on at 75 percent
C18_Witness ==
    /\ cls = "fan"
    /\ push.kind = "data"
    /\ "CURRENT_SPEED" \in DOMAIN Store
    /\ Store["CURRENT_SPEED"] = 3
    /\ is_on(Store)
    /\ percentage(Store) = 75

\* C19: the fan reducer does not modify its input: after an "OnDataToUI" message
\* was processed, the message object, nested fan_state / fan_setup included, is
\* as it was delivered.
C19_FanMessageIntact ==
    (cls = "fan" /\ push.kind = "data") => push.intact

\* C20: whenever async_set_temperature under HEAT_COOL sends a pair, it is
\* setHeatSetpoint(l) before setCoolSetpoint(h) with h - l >= 2, for every
\* supplied low / high and every previous high; when only one of low / high is
\* supplied under HEAT_COOL nothing is sent.
C20_RangeGapKept ==
    /\ [][ \A kwargs \in TemperatureRequests :
             (async_set_temperature(kwargs) /\ hvac_mode(Store) = HVACMode_HEAT_COOL)
             => /\ \/ WillSend = <<>>
                   \/ /\ Len(WillSend) = 2
                      /\ WillSend[1][1] = "setHeatSetpoint"
                      /\ WillSend[2][1] = "setCoolSetpoint"
                      /\ WillSend[2][2] - WillSend[1][2] >= Degrees(2)
                /\ ~({"target_temp_low", "target_temp_high"} \subseteq DOMAIN kwargs)
                     => (WillSend = <<>> /\ call'.exc = "none") ]_vars
    /\ [](( /\ call.op = "async_set_temperature"
            /\ Len(dispatched) = 2 )
          => /\ dispatched[1][1] = "setHeatSetpoint"
             /\ dispatched[2][1] = "setCoolSetpoint"
             /\ dispatched[2][2] - dispatched[1][2] >= Degrees(2))

\* low=68, high=69.005 under HEAT_COOL: both setpoints were sent, 2 degrees apart
C20_Witness ==
    /\ call.op = "async_set_temperature"
    /\ call.pc = "done"
    /\ call.arg = [target_temp_low |-> Degrees(68), target_temp_high |-> Degrees(69) + 5]
    /\ Len(dispatched) = 2
    /\ dispatched[1][1] = "setHeatSetpoint"
    /\ dispatched[2][2] - dispatched[1][2] = Degrees(2)

\* C21: availability tracks the last channel event: the disconnect sentinel makes
\* the device unavailable, an "OnDataToUI" message makes it available, and
\* messages with other envelope names and command operations leave availability
\* as it was; so it is false / true according to the most recent of the two.
C21_AvailabilityTracksChannel ==
    /\ [](push.kind = "disconnect" => ~attr_available)
    /\ [](push.kind = "data" => attr_available)
    /\ [][ /\ \A m \in ClimateMessages :
                climate_update_callback(m)
                   => attr_available' = (IF m = False THEN FALSE
                                         ELSE IF IsDataToUI(m) THEN TRUE
                                         ELSE attr_available)
           /\ \A m \in FanMessages :
                fan_update_callback(m)
                   => attr_available' = (IF m = False THEN FALSE
                                         ELSE IF IsDataToUI(m) THEN TRUE
                                         ELSE attr_available)
           /\ Command => attr_available' = attr_available ]_vars

\* after a disconnect, a message with another envelope name arrived and a command
\* ran to its end: the device is still unavailable
C21_Witness ==
    /\ push.kind = "other"
    /\ call.pc = "done"
    /\ dispatched # <<>>
    /\ ~attr_available

\* an async_set_temperature call is suspended at one of its hub calls
Suspended == call.op = "async_set_temperature" /\ call.pc = "await"

\* the pairs <<low, high>> a call with these arguments can send under HEAT_COOL,
\* whatever the previous high was
RangePairs(kwargs) ==
    LET low == kwargs["target_temp_low"]
        high == kwargs["target_temp_high"]
    IN  IF high - low < Degrees(2)
        THEN {<<low, low + Degrees(2)>>, <<high - Degrees(2), high>>}
        ELSE {<<low, high>>}

\* C22: the setpoints one async_set_temperature call sends under HEAT_COOL are
\* fixed from the store read before the first hub call; a push processed while
\* the call is suspended between setHeatSetpoint and setCoolSetpoint neither
\* changes the argument of the second command nor suppresses it; and when
\* setHeatSetpoint fails, setCoolSetpoint is not sent.
C22_SuspendedCallKeepsPlan ==
    /\ [][ /\ \A kwargs \in TemperatureRequests :
                (async_set_temperature(kwargs) /\ hvac_mode(Store) = HVACMode_HEAT_COOL)
                   => WillSend = SetTemperaturePlan(Store, kwargs).cmds
           /\ \A m \in ClimateMessages :
                (Suspended /\ climate_update_callback(m))
                   => (call' = call /\ dispatched' = dispatched)
           /\ (Suspended /\ call.todo # <<>> /\ HubReturns)
                => /\ dispatched' = Append(dispatched, Head(call.todo))
                   /\ call'.pc = "await"
           /\ (Suspended /\ HubRaises)
                => /\ dispatched' = dispatched
                   /\ call'.pc = "raised"
                   /\ call'.todo = <<>> ]_vars
    /\ []((call.op = "async_set_temperature" /\ call.pc = "raised") => call.todo = <<>>)
    /\ []((call.op = "async_set_temperature" /\ Len(dispatched \o call.todo) = 2)
            => LET ws == dispatched \o call.todo
               IN  <<ws[1][2], ws[2][2]>> \in RangePairs(call.arg))

\* setHeatSetpoint was sent and setCoolSetpoint is still to come, and a push has
\* meanwhile taken the thermostat out of HEAT_COOL
C22_Witness ==
    /\ Suspended
    /\ Len(dispatched) = 1
    /\ dispatched[1][1] = "setHeatSetpoint"
    /\ Len(call.todo) = 1
    /\ call.todo[1][1] = "setCoolSetpoint"
    /\ push.kind = "data"
    /\ hvac_mode(Store) # HVACMode_HEAT_COOL
====
